---- MODULE Spec2Model ----
(***************************************************************************)
(* Model of src/index.js: the numeric helpers (generateFibonacci, isPrime, *)
(* filterPrimes, gcd, calculateHCF, calculateLCM), the AI helper           *)
(* getAIResponse and the POST /bfhl handler.                               *)
(*                                                                         *)
(* JSON values.  A JSON value is a record [t, n, a, s]:                    *)
(*   t = "num": the number n/2.  Numbers are kept in halves so that the    *)
(*              non-integers 0.5, 1.5, ... exist: Number.isInteger(x) is   *)
(*              "n is even".  Whole(k) is the integer k.                   *)
(*   t = "arr": the array of numbers a (each element in halves).           *)
(*   t = "str": the string s, a sequence of one-character strings.         *)
(*   t = "undefined": no value.                                            *)
(* A thrown Error is a completion [ok |-> FALSE, error |-> message].       *)
(***************************************************************************)
EXTENDS Integers, Sequences, FiniteSets, TLC

\* ------------------------------------------------------------------ bounds
MaxN    == 7   \* largest count given to generateFibonacci
MaxVal  == 9   \* largest integer element of an input array
NegVals == 2   \* integer elements go down to -NegVals
MaxLen  == 3   \* longest input array
NumReq  == 2   \* POST /bfhl requests in flight
MaxText == 1   \* longest text the AI capability returns

\* ------------------------------------------------------------- JSON values
Whole(k)     == 2 * k
ToInt(x)     == x \div 2
Undefined    == [t |-> "undefined", n |-> 0, a |-> << >>, s |-> << >>]
Num(x)       == [t |-> "num", n |-> x, a |-> << >>, s |-> << >>]
Arr(seq)     == [t |-> "arr", n |-> 0, a |-> seq, s |-> << >>]
Str(chars)   == [t |-> "str", n |-> 0, a |-> << >>, s |-> chars]

Return(v)    == [ok |-> TRUE,  value |-> v,         error |-> ""]
Throw(msg)   == [ok |-> FALSE, value |-> Undefined, error |-> msg]

Abs(x)       == IF x < 0 THEN -x ELSE x
Sign(x)      == IF x < 0 THEN -1 ELSE 1

\* Number.isInteger on a number (in halves)
IsInteger(x) == x % 2 = 0
\* Number.isInteger on any value: false for every non-number
NumberIsInteger(v) == v.t = "num" /\ IsInteger(v.n)
\* Array.isArray
IsArray(v)   == v.t = "arr"

\* a % b of JavaScript: the result has the sign of the dividend.  Both
\* operands in halves; the remainder scales with them.
JsRem(a, b)  == Sign(a) * (Abs(a) % Abs(b))
\* a * b and a / b on numbers in halves (exact on the values used here)
JsMul(a, b)  == Sign(a) * Sign(b) * ((Abs(a) * Abs(b)) \div 2)
JsDiv(a, b)  == Sign(a) * Sign(b) * ((2 * Abs(a)) \div Abs(b))

\* --------------------------------------------------------- generateFibonacci
RECURSIVE FibLoopInclusive(_, _, _)
\* Variant: the loop bound written i <= n
FibLoopInclusive(fib, i, n) ==
    IF i <= n THEN FibLoopInclusive(Append(fib, fib[i] + fib[i - 1]), i + 1, n)
    ELSE fib

RECURSIVE FibLoop(_, _, _)
\* for (let i = 2; i < n; i++) fib.push(fib[i - 1] + fib[i - 2]);
\* fib is 1-indexed here: JavaScript's fib[i - 1] is fib[i].
FibLoop(fib, i, n) ==
    IF i < n THEN FibLoop(Append(fib, fib[i] + fib[i - 1]), i + 1, n)
    ELSE fib

generateFibonacci(n) ==
    IF ~NumberIsInteger(n) \/ n.n < Whole(0)
    THEN Throw("Input must be a non-negative integer")
    ELSE IF n.n = Whole(0) THEN Return(Arr(<< >>))
    ELSE IF n.n = Whole(1) THEN Return(Arr(<<Whole(0)>>))
    ELSE Return(Arr(FibLoop(<<Whole(0), Whole(1)>>, 2, ToInt(n.n))))

\* ------------------------------------------------------------------ isPrime
RECURSIVE PrimeLoopStrict(_, _)
\* Variant: the loop bound written i < Math.sqrt(num)
PrimeLoopStrict(num, i) ==
    IF i * i < num
    THEN IF num % i = 0 THEN FALSE ELSE PrimeLoopStrict(num, i + 2)
    ELSE TRUE

RECURSIVE PrimeLoop(_, _)
\* for (let i = 3; i <= Math.sqrt(num); i += 2) if (num % i === 0) return false;
\* i <= sqrt(num) is i * i <= num for the integers i, num >= 3.
PrimeLoop(num, i) ==
    IF i * i <= num
    THEN IF num % i = 0 THEN FALSE ELSE PrimeLoop(num, i + 2)
    ELSE TRUE

\* isPrime is only ever called on an integer (filterPrimes checks first);
\* x is that integer in halves.
isPrime(x) ==
    LET num == ToInt(x) IN
    IF num < 2 THEN FALSE
    ELSE IF num = 2 THEN TRUE
    ELSE IF num % 2 = 0 THEN FALSE
    ELSE PrimeLoop(num, 3)

\* ------------------------------------------------------------- filterPrimes
RECURSIVE FilterLoop(_, _, _)
\* arr.filter(callback): the callback runs on the elements in order; a throw
\* inside it abandons the whole filter.
FilterLoop(a, i, out) ==
    IF i > Len(a) THEN Return(Arr(out))
    ELSE IF ~IsInteger(a[i]) THEN Throw("All elements must be integers")
    ELSE FilterLoop(a, i + 1, IF isPrime(a[i]) THEN Append(out, a[i]) ELSE out)

filterPrimes(arr) ==
    IF ~IsArray(arr) THEN Throw("Input must be an array")
    ELSE FilterLoop(arr.a, 1, << >>)

\* ---------------------------------------------------------------------- gcd
RECURSIVE gcd(_, _)
gcd(a, b) == IF b = 0 THEN a ELSE gcd(b, JsRem(a, b))

\* ------------------------------------------------------------- calculateHCF
RECURSIVE ReduceHCF(_, _, _)
\* arr.reduce(callback) with no initial value: the accumulator starts as
\* arr[0] and the callback first runs on arr[1].
ReduceHCF(a, i, acc) ==
    IF i > Len(a) THEN Return(Num(acc))
    ELSE IF ~IsInteger(a[i]) \/ a[i] <= 0
         THEN Throw("All elements must be positive integers")
    ELSE ReduceHCF(a, i + 1, gcd(acc, a[i]))

calculateHCF(arr) ==
    IF ~IsArray(arr) \/ Len(arr.a) = 0 THEN Throw("Input must be a non-empty array")
    ELSE ReduceHCF(arr.a, 2, arr.a[1])

\* ------------------------------------------------------------- calculateLCM
\* Variant: the product not divided by the gcd
lcmProduct(a, b) == JsMul(a, b)

\* const lcm = (a, b) => (a * b) / gcd(a, b);
lcm(a, b) == JsDiv(JsMul(a, b), gcd(a, b))

RECURSIVE ReduceLCM(_, _, _)
ReduceLCM(a, i, acc) ==
    IF i > Len(a) THEN Return(Num(acc))
    ELSE IF ~IsInteger(a[i]) \/ a[i] <= 0
         THEN Throw("All elements must be positive integers")
    ELSE ReduceLCM(a, i + 1, lcm(acc, a[i]))

calculateLCM(arr) ==
    IF ~IsArray(arr) \/ Len(arr.a) = 0 THEN Throw("Input must be a non-empty array")
    ELSE ReduceLCM(arr.a, 2, arr.a[1])

\* ---------------------------------------------------- getAIResponse: strings
Whitespace  == {" "}
\* The backquote character (written out: the lexer does not take it in a string)
Backtick    == "backquote"
Punctuation == {".", ",", "!", "?", ";", ":", "'", "\"", "(", ")"}

RECURSIVE TrimStart(_)
TrimStart(s) ==
    IF s # << >> /\ Head(s) \in Whitespace THEN TrimStart(Tail(s)) ELSE s
RECURSIVE TrimEnd(_)
TrimEnd(s) ==
    IF s # << >> /\ s[Len(s)] \in Whitespace
    THEN TrimEnd(SubSeq(s, 1, Len(s) - 1)) ELSE s
\* String.prototype.trim
Trim(s) == TrimEnd(TrimStart(s))

RECURSIVE RemoveBold(_)
\* .replace(/\*\*/g, ''): every non-overlapping "**", left to right
RemoveBold(s) ==
    IF s = << >> THEN << >>
    ELSE IF Len(s) >= 2 /\ s[1] = "*" /\ s[2] = "*" THEN RemoveBold(SubSeq(s, 3, Len(s)))
    ELSE <<Head(s)>> \o RemoveBold(Tail(s))

\* .replace(/[set]/g, '')
RemoveChars(s, set) == SelectSeq(s, LAMBDA c : c \notin set)

RECURSIVE FirstWord(_)
\* .split(/[\s\n\r]+/)[0]: the text before the first run of whitespace
FirstWord(s) ==
    IF s = << >> \/ Head(s) \in Whitespace THEN << >>
    ELSE <<Head(s)>> \o FirstWord(Tail(s))

\* The cleaning chain of getAIResponse
CleanText(text) ==
    FirstWord(Trim(RemoveChars(RemoveChars(RemoveChars(RemoveBold(text),
                                                       {"*"}), {Backtick}), Punctuation)))

\* What 'await model.generateContent(prompt)' and response.text() can give:
\*   reject     - the call (or response.text()) throws an Error with message msg
\*   noResponse - it resolves with no response object
\*   text       - it resolves and response.text() returns the string text
Rejected(m)  == [kind |-> "reject",     text |-> << >>, msg |-> m]
NoResponse   == [kind |-> "noResponse", text |-> << >>, msg |-> ""]
Text(chars)  == [kind |-> "text",       text |-> chars, msg |-> ""]
NoOutcome    == [kind |-> "none",       text |-> << >>, msg |-> ""]

\* if (typeof question !== 'string' || question.trim() === '') throw ...
getAIResponseCheck(question) ==
    IF question.t # "str" \/ Trim(question.s) = << >>
    THEN Throw("Question must be a non-empty string")
    ELSE Return(question)

\* The body of the try block once generateContent has settled with outcome o
getAIResponseTry(o) ==
    IF o.kind = "reject" THEN Throw(o.msg)
    ELSE IF o.kind = "noResponse" THEN Throw("No response from AI")
    ELSE IF o.text = << >> \/ Trim(o.text) = << >> THEN Throw("Empty response from AI")
    ELSE LET text == CleanText(o.text) IN
         IF text = << >> THEN Throw("Could not extract answer")
         ELSE Return(Str(text))

\* Variant: the catch block rethrows the error it caught
getAIResponseRethrow(c) == c

\* catch (error) { console.error(...); throw new Error('AI API request failed'); }
getAIResponseCatch(c) ==
    IF c.ok THEN c ELSE Throw("AI API request failed")

\* getAIResponse from the point where generateContent settles
getAIResponseSettle(o) == getAIResponseCatch(getAIResponseTry(o))

\* ------------------------------------------------------- POST /bfhl handler
\* process.env.OFFICIAL_EMAIL: set at process start, never written
OFFICIAL_EMAIL == "official@email"

\* Variant: 'AI' missing from the list
validKeysWithoutAI == {"fibonacci", "prime", "lcm", "hcf"}

\* const validKeys = ['fibonacci', 'prime', 'lcm', 'hcf', 'AI'];
validKeys == {"fibonacci", "prime", "lcm", "hcf", "AI"}

\* Object.keys(body).filter(key => validKeys.includes(key)); a body is a
\* function from its keys to their values.
providedKeys(b) == {key \in DOMAIN b : key \in validKeys}

\* Variant: the failure response sent with status 500
ErrorReply500(msg) ==
    [status |-> 500, keys |-> {"is_success", "official_email", "error"},
     is_success |-> FALSE, official_email |-> "official@email",
     data |-> Undefined, error |-> msg]

\* res.status(400).json({ is_success: false, official_email, error })
ErrorReply(msg) ==
    [status |-> 400, keys |-> {"is_success", "official_email", "error"},
     is_success |-> FALSE, official_email |-> OFFICIAL_EMAIL,
     data |-> Undefined, error |-> msg]

\* res.status(200).json({ is_success: true, official_email, data: data });
\* JSON.stringify leaves out a key whose value is undefined.
SuccessReply(data) ==
    [status |-> 200,
     keys |-> {"is_success", "official_email"}
              \cup (IF data.t = "undefined" THEN {} ELSE {"data"}),
     is_success |-> TRUE, official_email |-> OFFICIAL_EMAIL,
     data |-> data, error |-> ""]

\* The function each case of the switch calls
HelperOf(key) ==
    CASE key = "fibonacci" -> "generateFibonacci"
      [] key = "prime"     -> "filterPrimes"
      [] key = "lcm"       -> "calculateLCM"
      [] key = "hcf"       -> "calculateHCF"
      [] key = "AI"        -> "getAIResponse"

\* switch (key): the four synchronous cases
RunHelper(key, b) ==
    CASE key = "fibonacci" -> generateFibonacci(b[key])
      [] key = "prime"     -> filterPrimes(b[key])
      [] key = "lcm"       -> calculateLCM(b[key])
      [] key = "hcf"       -> calculateHCF(b[key])

\* The handler's state for one request:
\*   pc      "idle" (not yet posted), "awaiting" (suspended at the await on
\*           generateContent) or "done" (the handler has returned)
\*   body    req.body
\*   trace   the phases the handler has been through
\*   sent    the responses written with res.json, in order
\*   calls   the helper functions the handler has called
\*   aiCalls invocations of model.generateContent
\*   outcome how generateContent settled
Idle ==
    [pc |-> "idle", body |-> << >>, trace |-> << >>, sent |-> << >>,
     calls |-> << >>, aiCalls |-> 0, outcome |-> NoOutcome]

\* A validation failure: the 400 is sent and the handler returns before the
\* switch.
Reject(b, msg) ==
    [pc |-> "done", body |-> b, trace |-> <<"Received", "Failed">>,
     sent |-> <<ErrorReply(msg)>>, calls |-> << >>, aiCalls |-> 0,
     outcome |-> NoOutcome]

\* Suspended at 'await model.generateContent(prompt)', inside getAIResponse
Await(b) ==
    [pc |-> "awaiting", body |-> b,
     trace |-> <<"Received", "Validated", "Executing">>,
     sent |-> << >>, calls |-> <<"getAIResponse">>, aiCalls |-> 1,
     outcome |-> NoOutcome]

\* Variant: no try/catch around the switch, so a throw ends the handler with
\* no response written
CompleteNoCatch(q, c) ==
    IF c.ok
    THEN [q EXCEPT !.pc = "done",
                   !.trace = <<"Received", "Validated", "Executing", "Succeeded">>,
                   !.sent = q.sent \o <<SuccessReply(c.value)>>]
    ELSE [q EXCEPT !.pc = "done",
                   !.trace = <<"Received", "Validated", "Executing">>]

\* The end of the handler, given the completion c of the switch: the success
\* response after it, or the catch block's 400 when the helper threw.
Complete(q, c) ==
    [q EXCEPT !.pc = "done",
              !.trace = <<"Received", "Validated", "Executing",
                          IF c.ok THEN "Succeeded" ELSE "Failed">>,
              !.sent = q.sent \o <<IF c.ok THEN SuccessReply(c.value)
                                           ELSE ErrorReply(c.error)>>]

\* The handler from its start to its first suspension or its return.  With
\* exactly one provided key the switch's default case cannot be reached.
postBfhl(b) ==
    LET keys == providedKeys(b) IN
    IF Cardinality(keys) = 0
    THEN Reject(b, "Request must contain exactly one of: fibonacci, prime, lcm, hcf, AI")
    ELSE IF Cardinality(keys) > 1
    THEN Reject(b, "Request must contain exactly one key, found multiple")
    ELSE LET key == CHOOSE k \in keys : TRUE
             entered == [Idle EXCEPT !.body = b, !.calls = <<HelperOf(key)>>]
         IN  IF key = "AI"
             THEN LET c == getAIResponseCheck(b[key]) IN
                  IF c.ok THEN Await(b) ELSE Complete(entered, c)
             ELSE Complete(entered, RunHelper(key, b))

\* Variant: a rejected call is made again
postBfhlResumeRetry(q, o) ==
    IF o.kind = "reject" /\ q.aiCalls < 3
    THEN [q EXCEPT !.aiCalls = @ + 1]
    ELSE [q EXCEPT !.outcome = o, !.pc = "done",
                   !.trace = <<"Received", "Validated", "Executing",
                               IF getAIResponseSettle(o).ok THEN "Succeeded" ELSE "Failed">>,
                   !.sent = q.sent \o <<IF getAIResponseSettle(o).ok
                                        THEN SuccessReply(getAIResponseSettle(o).value)
                                        ELSE ErrorReply(getAIResponseSettle(o).error)>>]

\* The handler from the settling of generateContent to its return
postBfhlResume(q, o) ==
    Complete([q EXCEPT !.outcome = o], getAIResponseSettle(o))

\* ------------------------------------------------------------------- state
Requests == 1 .. NumReq

VARIABLES
    req,      \* per request: the handler's state (see Idle)
    kop,      \* helper under test
    kin,      \* its input
    kdone,    \* whether it has run
    kout      \* its completion

vars == <<req, kop, kin, kdone, kout>>
helperVars == <<kop, kin, kdone, kout>>

\* ------------------------------------------------------------------ inputs
SeqsUpTo(S, n) == UNION {[1 .. k -> S] : k \in 0 .. n}

AllKeys == {"fibonacci", "prime", "lcm", "hcf", "AI", "other"}

\* Values a body can carry under each key
Values(key) ==
    CASE key = "fibonacci" -> {Num(Whole(5)), Num(Whole(-1)), Num(5)}
      [] key = "prime"     -> {Arr(<<Whole(2), Whole(3)>>), Num(Whole(7))}
      [] key = "lcm"       -> {Arr(<<Whole(4), Whole(6)>>), Arr(<<Whole(-2), Whole(4)>>)}
      [] key = "hcf"       -> {Arr(<<Whole(12), Whole(18), Whole(24)>>), Arr(<< >>)}
      [] key = "AI"        -> {Str(<<"a">>), Str(<<" ">>), Num(Whole(1))}
      [] key = "other"     -> {Num(Whole(1))}
\* The value a key carries in a body of two keys
Usual(key) ==
    CASE key = "fibonacci" -> Num(Whole(5))
      [] key = "prime"     -> Arr(<<Whole(2), Whole(3)>>)
      [] key = "lcm"       -> Arr(<<Whole(4), Whole(6)>>)
      [] key = "hcf"       -> Arr(<<Whole(12), Whole(18), Whole(24)>>)
      [] key = "AI"        -> Str(<<"a">>)
      [] key = "other"     -> Num(Whole(1))

\* Request bodies: no key, one key with any of its values, or two keys
Bodies ==
    {[k \in ks |-> Usual(k)] : ks \in {x \in SUBSET AllKeys : Cardinality(x) <= 2}}
    \cup UNION {{[k \in {key} |-> v] : v \in Values(key)} : key \in AllKeys}

Alphabet == {"*", Backtick, ".", " ", "a"}
Outcomes ==
    {Rejected("fetch failed"), NoResponse}
    \cup {Text(t) : t \in SeqsUpTo(Alphabet, MaxText)}

\* ----------------------------------------------------------------- actions
NotRun == Throw("not run")

Init ==
    /\ req = [r \in Requests |-> Idle]
    /\ kop = "none" /\ kin = Undefined /\ kdone = FALSE /\ kout = NotRun

\* app.post('/bfhl', ...) is invoked for request r with body b and runs to its
\* first await or to its return
Post(r, b) ==
    /\ req[r].pc = "idle"
    /\ req' = [req EXCEPT ![r] = postBfhl(b)]
    /\ UNCHANGED helperVars

\* Variant: res kept in one variable shared by all requests, so the response
\* goes to the request posted last (the highest one not idle)
AiSettleSharedRes(r, o) ==
    /\ req[r].pc = "awaiting"
    /\ LET last == CHOOSE t \in Requests :
                       /\ req[t].pc # "idle"
                       /\ \A u \in Requests : req[u].pc # "idle" => u <= t
           h == postBfhlResume(req[r], o)
       IN  req' = [t \in Requests |->
                     IF t = r /\ t = last THEN h
                     ELSE IF t = r THEN [h EXCEPT !.sent = << >>]
                     ELSE IF t = last THEN [req[t] EXCEPT !.sent = @ \o h.sent]
                     ELSE req[t]]
    /\ UNCHANGED helperVars

\* generateContent settles for request r with outcome o: getAIResponse runs
\* on to its return or throw, and the handler to its response
AiSettle(r, o) ==
    /\ req[r].pc = "awaiting"
    /\ req' = [req EXCEPT ![r] = postBfhlResume(req[r], o)]
    /\ UNCHANGED helperVars

Next ==
    \/ \E r \in Requests, b \in Bodies : Post(r, b)
    \/ \E r \in Requests, o \in Outcomes : AiSettle(r, o)

Spec == Init /\ [][Next]_vars

\* One outcome for each way through getAIResponse after the await: the call
\* throws, no response, blank text, text that cleans to nothing, a word
SettlePaths ==
    {Rejected("fetch failed"), NoResponse, Text(<<" ">>), Text(<<"*">>), Text(<<"a">>)}

FairNext ==
    \/ \E r \in Requests, b \in Bodies : Post(r, b)
    \/ \E r \in Requests, o \in SettlePaths : AiSettle(r, o)

\* The AI capability eventually returns or fails for every suspended request
FairSpec ==
    /\ Init /\ [][FairNext]_vars
    /\ \A r \in Requests : WF_vars(\E o \in SettlePaths : AiSettle(r, o))

\* ----------------------------------------- the numeric helpers on their own
\* Array elements: the integers -NegVals .. MaxVal and the non-integers 0.5, 1.5
Elems == {Whole(k) : k \in (0 - NegVals) .. MaxVal} \cup {1, 3}

NotAnArray == {Num(Whole(3)), Str(<<"a">>), Undefined}
ArrayInputs == {Arr(a) : a \in SeqsUpTo(Elems, MaxLen)} \cup NotAnArray
CountInputs ==
    {Num(x) : x \in (0 - 2 * NegVals) .. (2 * MaxN)}
    \cup {Arr(<<Whole(2)>>), Str(<<"a">>), Undefined}

HelperInit ==
    /\ req = [r \in Requests |-> Idle]
    /\ kop \in {"fibonacci", "prime", "hcf", "lcm"}
    /\ kin \in (IF kop = "fibonacci" THEN CountInputs ELSE ArrayInputs)
    /\ kdone = FALSE
    /\ kout = NotRun

RunFibonacci ==
    /\ kop = "fibonacci" /\ ~kdone
    /\ kout' = generateFibonacci(kin)
    /\ kdone' = TRUE
    /\ UNCHANGED <<req, kop, kin>>

RunFilterPrimes ==
    /\ kop = "prime" /\ ~kdone
    /\ kout' = filterPrimes(kin)
    /\ kdone' = TRUE
    /\ UNCHANGED <<req, kop, kin>>

RunHCF ==
    /\ kop = "hcf" /\ ~kdone
    /\ kout' = calculateHCF(kin)
    /\ kdone' = TRUE
    /\ UNCHANGED <<req, kop, kin>>

RunLCM ==
    /\ kop = "lcm" /\ ~kdone
    /\ kout' = calculateLCM(kin)
    /\ kdone' = TRUE
    /\ UNCHANGED <<req, kop, kin>>

HelperNext == RunFibonacci \/ RunFilterPrimes \/ RunHCF \/ RunLCM

HelperSpec == HelperInit /\ [][HelperNext]_vars

\* ================================================================== claims

\* The error messages with which the helpers reject an argument
InvalidArgument ==
    {"Input must be a non-negative integer", "Input must be an array",
     "All elements must be integers", "Input must be a non-empty array",
     "All elements must be positive integers",
     "Question must be a non-empty string"}

\* v is a non-empty array of positive integers
PositiveIntegers(v) ==
    /\ v.t = "arr" /\ Len(v.a) >= 1
    /\ \A i \in 1 .. Len(v.a) : v.a[i] % 2 = 0 /\ v.a[i] > 0

\* C2: calculateHCF and calculateLCM fail with an InvalidArgument error, and
\* return nothing, whenever the input is not a non-empty array or any element
\* of it, the first included, is not a positive integer.
C2_RejectsInvalid ==
    (kop \in {"hcf", "lcm"} /\ kdone /\ ~PositiveIntegers(kin))
        => (~kout.ok /\ kout.error \in InvalidArgument /\ kout.value = Undefined)

\* C5: for an integer n >= 0, generateFibonacci(n) is an array of length n that
\* starts 0, 1 and in which every later element is the sum of the two before
\* it; for any other input it fails with InvalidArgument.
C5_Fibonacci ==
    (kop = "fibonacci" /\ kdone) =>
        IF kin.t = "num" /\ kin.n % 2 = 0 /\ kin.n >= 0
        THEN LET n == kin.n \div 2
                 f == kout.value.a
             IN  /\ kout.ok /\ kout.value.t = "arr"
                 /\ Len(f) = n
                 /\ (n >= 1 => f[1] = 2 * 0)
                 /\ (n >= 2 => f[2] = 2 * 1)
                 /\ \A i \in 3 .. n : f[i] = f[i - 1] + f[i - 2]
        ELSE ~kout.ok /\ kout.error \in InvalidArgument /\ kout.value = Undefined

C5_Witness ==
    /\ kop = "fibonacci" /\ kdone /\ kin = Num(2 * 5)
    /\ kout = Return(Arr(<<0, 2, 2, 4, 6>>))

\* x (an integer, in halves) is at least 2 and has no divisor in
\* [2, floor(sqrt(x))]
PrimeByDefinition(x) ==
    LET v == x \div 2 IN
    v >= 2 /\ \A d \in 2 .. v : d * d <= v => v % d # 0

\* C6: on an array of integers filterPrimes returns exactly the elements that
\* are prime by definition, in their order and with duplicates; when an element
\* is not an integer it fails with InvalidArgument and returns no list.
C6_FilterPrimes ==
    (kop = "prime" /\ kdone /\ kin.t = "arr") =>
        IF \A i \in 1 .. Len(kin.a) : kin.a[i] % 2 = 0
        THEN kout = Return(Arr(SelectSeq(kin.a, PrimeByDefinition)))
        ELSE ~kout.ok /\ kout.error \in InvalidArgument /\ kout.value = Undefined

C6_Witness ==
    /\ kop = "prime" /\ kdone /\ kin = Arr(<<2 * 2, 2 * 9, 2 * 2>>)
    /\ kout = Return(Arr(<<2 * 2, 2 * 2>>))

\* m is a positive integer that every element of a (in halves) divides
CommonMultiple(m, a) == m > 0 /\ \A i \in 1 .. Len(a) : m % (a[i] \div 2) = 0

\* C7: on a non-empty array of positive integers calculateLCM returns their
\* least common multiple: a positive integer that every element divides, with
\* no smaller one (a common multiple is a multiple of the first element); for
\* a single element it is that element.
C7_LeastCommonMultiple ==
    (kop = "lcm" /\ kdone /\ PositiveIntegers(kin)) =>
        /\ kout.ok /\ kout.value.t = "num" /\ kout.value.n % 2 = 0
        /\ LET l == kout.value.n \div 2
               first == kin.a[1] \div 2
           IN  /\ CommonMultiple(l, kin.a)
               /\ \A j \in 1 .. (l \div first) :
                      (j * first < l) => ~CommonMultiple(j * first, kin.a)
               /\ (Len(kin.a) = 1 => l = first)

C7_Witness ==
    /\ kop = "lcm" /\ kdone /\ kin = Arr(<<2 * 4, 2 * 6, 2 * 9>>)
    /\ kout = Return(Num(2 * 36))

\* ------------------------------------------------------ claims on POST /bfhl
Recognized == {"fibonacci", "prime", "lcm", "hcf", "AI"}

\* The operation the spec assigns to each recognized key
OperationOf(key) ==
    CASE key = "fibonacci" -> "generateFibonacci"
      [] key = "prime"     -> "filterPrimes"
      [] key = "lcm"       -> "calculateLCM"
      [] key = "hcf"       -> "calculateHCF"
      [] key = "AI"        -> "getAIResponse"

Last(seq) == seq[Len(seq)]

\* C1: counting only a body's recognized keys, a request with none or with two
\* or more ends in Failed with one 400 response, is_success false, and no
\* helper and no AI call has run for it; a request with exactly one has run
\* the operation of that key and no other.
C1_ExactlyOneKey ==
    \A r \in Requests :
        LET q == req[r]
            found == DOMAIN q.body \cap Recognized
        IN  q.pc # "idle" =>
                IF Cardinality(found) = 1
                THEN \E key \in found : q.calls = <<OperationOf(key)>>
                ELSE /\ q.pc = "done" /\ Last(q.trace) = "Failed"
                     /\ Len(q.sent) = 1
                     /\ q.sent[1].status = 400 /\ ~q.sent[1].is_success
                     /\ q.calls = << >> /\ q.aiCalls = 0

C1_Witness ==
    \E r, t \in Requests :
        /\ DOMAIN req[r].body = {"fibonacci", "prime"} /\ req[r].pc = "done"
        /\ DOMAIN req[t].body = {"AI", "other"} /\ req[t].pc = "done"
        /\ req[t].sent[1].is_success

\* C3: every response of POST /bfhl has status 200 exactly when is_success is
\* true, and then carries data and no error; status 400 exactly when
\* is_success is false, and then carries error and no data.
C3_Envelope ==
    \A r \in Requests : \A i \in 1 .. Len(req[r].sent) :
        LET w == req[r].sent[i] IN
        /\ w.status \in {200, 400}
        /\ w.status = 200 <=> w.is_success
        /\ w.is_success => ("data" \in w.keys /\ "error" \notin w.keys)
        /\ ~w.is_success => ("error" \in w.keys /\ "data" \notin w.keys)

C3_Witness ==
    \E r, t \in Requests :
        /\ req[r].pc = "done" /\ req[r].sent[1].status = 200
        /\ req[r].body = [k \in {"fibonacci"} |-> Num(2 * 5)]
        /\ req[t].pc = "done" /\ req[t].sent[1].status = 400
        /\ req[t].body = [k \in {"hcf"} |-> Arr(<< >>)]
        /\ req[t].sent[1].error = "Input must be a non-empty array"

\* How the AI capability's outcome o fails the request
AiFailure(o) ==
    \/ o.kind \in {"reject", "noResponse"}
    \/ o.kind = "text" /\ (Trim(o.text) = << >> \/ CleanText(o.text) = << >>)

\* The messages of the underlying causes
CauseMessages(o) ==
    {o.msg, "No response from AI", "Empty response from AI", "Could not extract answer"}

\* C4: for an AI request whose question passed validation, every failure of
\* the call (it throws, gives no response, gives empty or blank text, or text
\* that normalizes to nothing) is answered with the one message
\* 'AI API request failed', never with the message of the cause.
C4_OpaqueAiFailure ==
    \A r \in Requests :
        LET q == req[r] IN
        (q.pc = "done" /\ q.outcome.kind # "none" /\ AiFailure(q.outcome)) =>
            /\ Len(q.sent) = 1 /\ ~q.sent[1].is_success
            /\ q.sent[1].error = "AI API request failed"
            /\ q.sent[1].error \notin CauseMessages(q.outcome)

C4_Witness ==
    \E r, t \in Requests :
        /\ req[r].pc = "done" /\ req[r].outcome = Text(<<"*">>)
        /\ req[r].sent[1].error = "AI API request failed"
        /\ req[t].pc = "done" /\ req[t].outcome = Rejected("fetch failed")
        /\ req[t].sent[1].error = "AI API request failed"

\* What the handler does with body b and AI outcome o when no other request
\* exists
HandledAlone(b, o) ==
    LET h == postBfhl(b) IN
    IF h.pc = "awaiting" /\ o.kind # "none" THEN postBfhlResume(h, o) ELSE h

\* C8: whatever the interleaving, every request is where it would be had it
\* been handled alone with the same AI outcome (same status, same body of the
\* response), and while a request is suspended on the AI call any request not
\* yet handled can be handled.
C8_Isolation ==
    \A r \in Requests :
        /\ req[r].pc # "idle" => req[r] = HandledAlone(req[r].body, req[r].outcome)
        /\ req[r].pc = "idle" =>
               (req[r] = Idle /\ ENABLED (\E b \in Bodies : Post(r, b)))

C8_Witness ==
    \E r, t \in Requests :
        /\ req[r].pc = "awaiting"
        /\ req[t].pc = "done" /\ req[t].outcome = Text(<<"a">>)
        /\ req[t].sent = <<SuccessReply(Str(<<"a">>))>>

\* C9: the AI capability is invoked at most once for a request, and only for
\* a request whose single recognized key is AI; such a request, once its
\* question has passed validation, has invoked it exactly once, and a failed
\* invocation is answered with one failure, not retried.
C9_SingleInvocation ==
    \A r \in Requests :
        LET q == req[r]
            found == DOMAIN q.body \cap Recognized
        IN  /\ q.aiCalls <= 1
            /\ q.aiCalls = 1 => found = {"AI"}
            /\ (q.pc # "idle" /\ found = {"AI"} /\ q.body["AI"].t = "str"
                  /\ \E i \in 1 .. Len(q.body["AI"].s) : q.body["AI"].s[i] # " ")
                 => q.aiCalls = 1
            /\ (q.pc = "done" /\ q.outcome.kind = "reject")
                 => (q.aiCalls = 1 /\ Len(q.sent) = 1 /\ ~q.sent[1].is_success)

C9_Witness ==
    \E r \in Requests :
        /\ req[r].pc = "done" /\ req[r].outcome.kind = "reject"
        /\ req[r].aiCalls = 1 /\ req[r].sent[1].status = 400

\* The phases a request can have been through
Paths ==
    {<< >>, <<"Received", "Failed">>, <<"Received", "Validated", "Executing">>,
     <<"Received", "Validated", "Executing", "Succeeded">>,
     <<"Received", "Validated", "Executing", "Failed">>}

Terminal(q) == q.trace # << >> /\ Last(q.trace) \in {"Succeeded", "Failed"}

\* The operation a request with one recognized key runs has thrown
Raised(q) ==
    LET key == CHOOSE k \in DOMAIN q.body \cap Recognized : TRUE IN
    IF key # "AI" THEN ~RunHelper(key, q.body).ok
    ELSE ~getAIResponseCheck(q.body[key]).ok \/ AiFailure(q.outcome)

Lifecycle ==
    \A r \in Requests :
        LET q == req[r] IN
        /\ q.trace \in Paths
        /\ Terminal(q) <=> q.pc = "done"
        /\ Len(q.sent) = (IF q.pc = "done" THEN 1 ELSE 0)
        /\ q.pc = "done" =>
              /\ Last(q.trace) = "Succeeded" <=> q.sent[1].is_success
              /\ Last(q.trace) = "Failed" => "data" \notin q.sent[1].keys
              /\ Len(q.trace) = 4 => (Last(q.trace) = "Failed" <=> Raised(q))

TerminalIsFinal ==
    \A r \in Requests : Terminal(req[r]) => req'[r] = req[r]

\* C10: a request goes Received, Validated, Executing, then Succeeded or
\* Failed (or from Received straight to Failed); it has sent exactly one
\* response when it is terminal and none before; the terminal phases exclude
\* each other and are never left; a failure raised while Executing ends in
\* Failed with no data; and, the AI capability eventually settling, every
\* request that was received reaches a terminal phase.
C10_Lifecycle ==
    /\ []Lifecycle
    /\ [][TerminalIsFinal]_vars
    /\ \A r \in Requests : (req[r].pc # "idle") ~> Terminal(req[r])

C10_Witness ==
    \E r, t \in Requests :
        /\ req[r].trace = <<"Received", "Validated", "Executing", "Failed">>
        /\ req[r].outcome.kind = "noResponse"
        /\ req[t].trace = <<"Received", "Validated", "Executing", "Succeeded">>
        /\ req[t].outcome.kind = "text"

====
